---- MODULE Spec2Model ----
(***************************************************************************)
(* A model of algokit.core.utils: the version comparison, the spinner      *)
(* runner (run_with_animation / animate), the pipx command discovery and   *)
(* the command path resolution.  Text is modelled as a sequence of         *)
(* one-character strings so that splitting, parsing and path handling are  *)
(* computed, not assumed.                                                  *)
(***************************************************************************)
EXTENDS Integers, Sequences, FiniteSets, TLC

VARIABLES
    \* ---- is_minimum_version
    vPc,            \* "idle" | "call" | "done"
    system_version, \* argument: text
    minimum_version,\* argument: text
    vResult,        \* the returned bool (FALSE before the return)
    \* ---- run_with_animation / animate / the operation
    runPc,          \* the runner's position in run_with_animation
    animPc,         \* the animate task's position
    opState,        \* the target_function task: unsubmitted|queued|running|done
    opOutcome,      \* what target_function did: a value or a raised error
    stop_event,     \* threading.Event: its flag
    setCount,       \* history: calls of stop_event.set()
    frame,          \* animate: index of the for loop over spinner["frames"]
    name,           \* animate: the label (animation_text)
    line,           \* the terminal line: its cells, left to right
    cursor,         \* the terminal cursor's column (1 is the left margin)
    lastWrite,      \* history: kind of animate's latest sys.stdout.write
    caught,         \* runner: e of "except Exception as e" / result of the try
    pending,        \* runner: what is leaving the with block
    runOutcome,     \* what run_with_animation returned or raised
    framesAfterStop,\* history: frames written while the flag was set
    sleepsAfterStop,\* history: frame sleeps begun while the flag was set
    readsAfterStop, \* history: is_set() calls of animate that saw the flag
    \* ---- find_valid_pipx_command
    pxPc,           \* "idle" | "next" | "probe" | "returned" | "raised"
    pxEnv,          \* the environment: which(), sys.executable, ...
    error_message,  \* argument
    genPos,         \* get_candidate_pipx_commands: resume point of the generator
    generated,      \* history: the candidates the generator has yielded
    whichCalls,     \* history: names looked up with which()
    probed,         \* history: <<candidate, outcome of its --version run>>
    pxCurrent,      \* pipx_command of the for loop
    pxResult,       \* the returned command
    pxError,        \* the raised error
    \* ---- split_and_resolve_command_strings / resolve_command_path
    rsPc,           \* "idle" | "run" | "done" | "raised"
    commands,       \* argument: the raw command strings
    searchPath,     \* the environment: PATH directories and their executables
    rsIdx,          \* position of the list comprehension
    rsOut,          \* the resolved commands so far
    rsError,        \* the raised error
    lookups         \* history: names looked up with shutil.which()

verVars == <<vPc, system_version, minimum_version, vResult>>
animVars == <<runPc, animPc, opState, opOutcome, stop_event, setCount, frame, name,
              line, cursor, lastWrite, caught, pending, runOutcome,
              framesAfterStop, sleepsAfterStop, readsAfterStop>>
pxVars == <<pxPc, pxEnv, error_message, genPos, generated, whichCalls, probed,
            pxCurrent, pxResult, pxError>>
rsVars == <<rsPc, commands, searchPath, rsIdx, rsOut, rsError, lookups>>
vars == <<verVars, animVars, pxVars, rsVars>>
notVerVars == <<animVars, pxVars, rsVars>>
notAnimVars == <<verVars, pxVars, rsVars>>
notPxVars == <<verVars, animVars, rsVars>>
notRsVars == <<verVars, animVars, pxVars>>

None == "None"

(***************************************************************************)
(* Text helpers                                                            *)
(***************************************************************************)
RECURSIVE SplitOn(_, _)
\* str.split(sep) for a one-character separator: the pieces, empty ones kept.
SplitOn(s, sep) ==
    IF \A i \in 1..Len(s) : s[i] # sep
    THEN <<s>>
    ELSE LET k == CHOOSE i \in 1..Len(s) :
                      s[i] = sep /\ \A j \in 1..(i - 1) : s[j] # sep
         IN <<SubSeq(s, 1, k - 1)>> \o SplitOn(SubSeq(s, k + 1, Len(s)), sep)

RECURSIVE JoinWith(_, _)
\* sep.join(parts)
JoinWith(parts, sep) ==
    IF Len(parts) = 0 THEN <<>>
    ELSE IF Len(parts) = 1 THEN parts[1]
    ELSE parts[1] \o <<sep>> \o JoinWith(Tail(parts), sep)

DigitValue(c) ==
    CASE c = "0" -> 0 [] c = "1" -> 1 [] c = "2" -> 2 [] c = "3" -> 3
      [] c = "4" -> 4 [] c = "5" -> 5 [] c = "6" -> 6 [] c = "7" -> 7
      [] c = "8" -> 8 [] c = "9" -> 9

RECURSIVE ParseInt(_)
\* int(s) of a non-empty run of decimal digits
ParseInt(s) ==
    IF Len(s) = 1 THEN DigitValue(s[1])
    ELSE ParseInt(SubSeq(s, 1, Len(s) - 1)) * 10 + DigitValue(s[Len(s)])

(***************************************************************************)
(* is_minimum_version                                                      *)
(***************************************************************************)
MaxArity == 2

\* tuple(map(int, version.split(".")))
VersionTuple(version) ==
    LET parts == SplitOn(version, ".")
    IN [i \in 1..Len(parts) |-> ParseInt(parts[i])]

\* Python's a >= b on tuples of int: the first differing position decides,
\* and without one the lengths do.
TupleGE(a, b) ==
    LET n == IF Len(a) < Len(b) THEN Len(a) ELSE Len(b)
        diff == {i \in 1..n : a[i] # b[i]}
    IN IF diff = {}
       THEN Len(a) >= Len(b)
       ELSE LET k == CHOOSE i \in diff : \A j \in diff : i <= j
            IN a[k] > b[k]

\* a >= b on str: the same, on characters (code points of the digits and ".")
CharCode(c) == IF c = "." THEN 0 ELSE 1 + DigitValue(c)

TextGE(a, b) ==
    TupleGE([i \in 1..Len(a) |-> CharCode(a[i])], [i \in 1..Len(b) |-> CharCode(b[i])])

\* the slip of comparing the dotted text instead of the integer tuples
IsMinimumVersionAsText(sys, min) ==
    TextGE(sys, min)

IsMinimumVersion(sys, min) ==
    LET system_version_as_tuple == VersionTuple(sys)
        minimum_version_as_tuple == VersionTuple(min)
    IN TupleGE(system_version_as_tuple, minimum_version_as_tuple)

\* the decimal segments the version arguments are built from
Segments == {<<"0">>, <<"1">>, <<"9">>, <<"1", "0">>, <<"0", "9">>}

VersionTexts ==
    {JoinWith(t, ".") : t \in UNION {[1..n -> Segments] : n \in 1..MaxArity}}

VerIdle ==
    /\ vPc = "idle"
    /\ system_version = <<>>
    /\ minimum_version = <<>>
    /\ vResult = FALSE

InitVersion ==
    /\ vPc = "call"
    /\ system_version \in VersionTexts
    /\ minimum_version \in VersionTexts
    /\ vResult = FALSE

IsMinimumVersionCall ==
    /\ vPc = "call"
    /\ vResult' = IsMinimumVersion(system_version, minimum_version)
    /\ vPc' = "done"
    /\ UNCHANGED <<system_version, minimum_version>>
    /\ UNCHANGED notVerVars

(***************************************************************************)
(* run_with_animation, animate and the wrapped operation                   *)
(***************************************************************************)
\* SPINNER_FRAMES: the ten braille glyphs, named by position
SPINNER_FRAMES == <<"f0", "f1", "f2", "f3", "f4", "f5", "f6", "f7", "f8", "f9">>

NFrames == Len(SPINNER_FRAMES)

\* "\r", " " and the line-clear escape as terminal input
CR == "\\r"
BLANK == " "
CLEAR_LINE == "ESC[K"

\* The terminal line after one character of output: "\r" moves the cursor to
\* the left margin, the line-clear escape blanks the cells from the cursor to
\* the end of the line, any other character overwrites the cell under the
\* cursor and advances it.  A blanked tail is a tail of BLANK cells.
TermPut(t, c) ==
    IF c = CR THEN [t EXCEPT !.cursor = 1]
    ELSE IF c = CLEAR_LINE
    THEN [t EXCEPT !.line = [i \in 1..Len(t.line) |->
                                 IF i >= t.cursor THEN BLANK ELSE t.line[i]]]
    ELSE [line |-> IF t.cursor <= Len(t.line)
                   THEN [t.line EXCEPT ![t.cursor] = c]
                   ELSE t.line \o <<c>>,
          cursor |-> t.cursor + 1]

RECURSIVE TermWrite(_, _)
\* sys.stdout.write(s) as the terminal renders it
TermWrite(t, s) ==
    IF Len(s) = 0 THEN t ELSE TermWrite(TermPut(t, Head(s)), Tail(s))

\* output = f"\r{text} {name}" (text is the frame: codecs.decode of a str raises
\* TypeError, so the except branch keeps the frame as it is)
FrameOutput(i, label) == <<CR, SPINNER_FRAMES[i], BLANK>> \o label

\* the text of the final write of animate
ResetOutput == <<CR, BLANK>>

\* what target_function can do: return a value, raise an error of the
\* Exception hierarchy, or raise one outside it (SystemExit, KeyboardInterrupt)
Outcomes ==
    {[kind |-> "value", id |-> "v1"], [kind |-> "value", id |-> "v2"],
     [kind |-> "Exception", id |-> "e1"], [kind |-> "Exception", id |-> "e2"],
     [kind |-> "BaseException", id |-> "b1"]}

NoOutcome == [kind |-> None, id |-> None]

Labels == {<<"L">>, <<"L", "o">>}

AnimIdle ==
    /\ runPc = "idle" /\ animPc = "idle" /\ opState = "idle"
    /\ opOutcome = NoOutcome /\ stop_event = FALSE /\ setCount = 0
    /\ frame = 1 /\ name = <<>> /\ line = <<>> /\ cursor = 1
    /\ lastWrite = None /\ caught = NoOutcome /\ pending = NoOutcome
    /\ runOutcome = NoOutcome
    /\ framesAfterStop = 0 /\ sleepsAfterStop = 0 /\ readsAfterStop = 0

\* run_with_animation entered: the executor and the Event exist, nothing is
\* submitted, the cursor is at the left margin of an empty line.
InitAnimation ==
    /\ runPc = "submit_animate" /\ animPc = "unsubmitted" /\ opState = "unsubmitted"
    /\ opOutcome = NoOutcome /\ stop_event = FALSE /\ setCount = 0
    /\ frame = 1 /\ name \in Labels /\ line = <<>> /\ cursor = 1
    /\ lastWrite = None /\ caught = NoOutcome /\ pending = NoOutcome
    /\ runOutcome = NoOutcome
    /\ framesAfterStop = 0 /\ sleepsAfterStop = 0 /\ readsAfterStop = 0

runnerVars == <<runPc, caught, pending, runOutcome>>
termVars == <<line, cursor, lastWrite>>
histVars == <<framesAfterStop, sleepsAfterStop, readsAfterStop>>

\* ---------------------------------------------------------------- animate
\* stop_event.is_set() as animate reads it
AnimReadsFlag ==
    readsAfterStop' = IF stop_event THEN readsAfterStop + 1 ELSE readsAfterStop

\* a worker thread of the pool takes up animate
AnimStart ==
    /\ animPc = "queued"
    /\ animPc' = "while"
    /\ UNCHANGED <<runnerVars, opState, opOutcome, stop_event, setCount, frame,
                   name, termVars, histVars>>
    /\ UNCHANGED notAnimVars

\* while not stop_event.is_set(): ... for frame in spinner["frames"]:
AnimWhile ==
    /\ animPc = "while"
    /\ AnimReadsFlag
    /\ IF stop_event
       THEN animPc' = "reset" /\ UNCHANGED frame
       ELSE animPc' = "if" /\ frame' = 1
    /\ UNCHANGED <<runnerVars, opState, opOutcome, stop_event, setCount,
                   name, termVars, framesAfterStop, sleepsAfterStop>>
    /\ UNCHANGED notAnimVars

\* the frame loop without its own check of the flag
AnimIfNoBreak ==
    /\ animPc = "if"
    /\ AnimReadsFlag
    /\ animPc' = "write"
    /\ UNCHANGED <<runnerVars, opState, opOutcome, stop_event, setCount, frame,
                   name, termVars, framesAfterStop, sleepsAfterStop>>
    /\ UNCHANGED notAnimVars

\* if stop_event.is_set(): break
AnimIf ==
    /\ animPc = "if"
    /\ AnimReadsFlag
    /\ animPc' = IF stop_event THEN "while" ELSE "write"
    /\ UNCHANGED <<runnerVars, opState, opOutcome, stop_event, setCount, frame,
                   name, termVars, framesAfterStop, sleepsAfterStop>>
    /\ UNCHANGED notAnimVars

\* sys.stdout.write(output)
AnimWriteFrame ==
    /\ animPc = "write"
    /\ LET t == TermWrite([line |-> line, cursor |-> cursor], FrameOutput(frame, name))
       IN line' = t.line /\ cursor' = t.cursor
    /\ lastWrite' = "frame"
    /\ framesAfterStop' = IF stop_event THEN framesAfterStop + 1 ELSE framesAfterStop
    /\ animPc' = "clear"
    /\ UNCHANGED <<runnerVars, opState, opOutcome, stop_event, setCount, frame,
                   name, sleepsAfterStop, readsAfterStop>>
    /\ UNCHANGED notAnimVars

\* sys.stdout.write(CLEAR_LINE); sys.stdout.flush()
AnimClearLine ==
    /\ animPc = "clear"
    /\ LET t == TermWrite([line |-> line, cursor |-> cursor], <<CLEAR_LINE>>)
       IN line' = t.line /\ cursor' = t.cursor
    /\ lastWrite' = "clear"
    /\ animPc' = "sleep"
    /\ UNCHANGED <<runnerVars, opState, opOutcome, stop_event, setCount, frame,
                   name, histVars>>
    /\ UNCHANGED notAnimVars

\* time.sleep(0.001 * spinner["interval"]), then the next frame of the for
\* loop, or the while test again when the frames are exhausted
AnimSleep ==
    /\ animPc = "sleep"
    /\ sleepsAfterStop' = IF stop_event THEN sleepsAfterStop + 1 ELSE sleepsAfterStop
    /\ IF frame < NFrames
       THEN animPc' = "if" /\ frame' = frame + 1
       ELSE animPc' = "while" /\ UNCHANGED frame
    /\ UNCHANGED <<runnerVars, opState, opOutcome, stop_event, setCount,
                   name, termVars, framesAfterStop, readsAfterStop>>
    /\ UNCHANGED notAnimVars

\* sys.stdout.write("\r "), and animate returns
AnimReset ==
    /\ animPc = "reset"
    /\ LET t == TermWrite([line |-> line, cursor |-> cursor], ResetOutput)
       IN line' = t.line /\ cursor' = t.cursor
    /\ lastWrite' = "reset"
    /\ animPc' = "done"
    /\ UNCHANGED <<runnerVars, opState, opOutcome, stop_event, setCount, frame,
                   name, histVars>>
    /\ UNCHANGED notAnimVars

AnimateStep ==
    \/ AnimStart
    \/ AnimWhile
    \/ AnimIf
    \/ AnimWriteFrame
    \/ AnimClearLine
    \/ AnimSleep
    \/ AnimReset

\* ------------------------------------------------------- the operation
\* a worker thread of the pool takes up target_function
OpStart ==
    /\ opState = "queued"
    /\ opState' = "running"
    /\ UNCHANGED <<runnerVars, animPc, opOutcome, stop_event, setCount, frame,
                   name, termVars, histVars>>
    /\ UNCHANGED notAnimVars

\* target_function returns or raises; the future records which
OpFinish ==
    /\ opState = "running"
    /\ \E o \in Outcomes : opOutcome' = o
    /\ opState' = "done"
    /\ UNCHANGED <<runnerVars, animPc, stop_event, setCount, frame,
                   name, termVars, histVars>>
    /\ UNCHANGED notAnimVars

OpStep ==
    \/ OpStart
    \/ OpFinish

\* ------------------------------------------------- run_with_animation
\* animation_future = executor.submit(animate, animation_text, stop_event)
RunSubmitAnimate ==
    /\ runPc = "submit_animate"
    /\ animPc' = "queued"
    /\ runPc' = "submit_function"
    /\ UNCHANGED <<caught, pending, runOutcome, opState, opOutcome, stop_event,
                   setCount, frame, name, termVars, histVars>>
    /\ UNCHANGED notAnimVars

\* function_future = executor.submit(target_function, *args, **kwargs)
RunSubmitFunction ==
    /\ runPc = "submit_function"
    /\ opState' = "queued"
    /\ runPc' = "try"
    /\ UNCHANGED <<caught, pending, runOutcome, animPc, opOutcome, stop_event,
                   setCount, frame, name, termVars, histVars>>
    /\ UNCHANGED notAnimVars

\* try: result = function_future.result()  /  except Exception as e:  /  else:
\* result() blocks until the operation is done and re-raises what it raised;
\* an error that is not an Exception passes the except clause and leaves the
\* try statement, and with it the with block.
RunTry ==
    /\ runPc = "try"
    /\ opState = "done"
    /\ CASE opOutcome.kind = "value" ->
              caught' = opOutcome /\ runPc' = "else_set" /\ UNCHANGED pending
         [] opOutcome.kind = "Exception" ->
              caught' = opOutcome /\ runPc' = "except_set" /\ UNCHANGED pending
         [] opOutcome.kind = "BaseException" ->
              pending' = opOutcome /\ runPc' = "exit_with" /\ UNCHANGED caught
    /\ UNCHANGED <<runOutcome, animPc, opState, opOutcome, stop_event,
                   setCount, frame, name, termVars, histVars>>
    /\ UNCHANGED notAnimVars

\* stop_event.set(), in the except clause and in the else clause
RunSetStop ==
    /\ runPc \in {"except_set", "else_set"}
    /\ stop_event' = TRUE
    /\ setCount' = setCount + 1
    /\ runPc' = IF runPc = "except_set" THEN "except_join" ELSE "else_join"
    /\ UNCHANGED <<caught, pending, runOutcome, animPc, opState, opOutcome,
                   frame, name, termVars, histVars>>
    /\ UNCHANGED notAnimVars

\* animation_future.result(): blocks until animate has returned
RunJoinAnimate ==
    /\ runPc \in {"except_join", "else_join"}
    /\ animPc = "done"
    /\ runPc' = IF runPc = "except_join" THEN "raise" ELSE "return"
    /\ UNCHANGED <<caught, pending, runOutcome, animPc, opState, opOutcome,
                   stop_event, setCount, frame, name, termVars, histVars>>
    /\ UNCHANGED notAnimVars

\* raise e  /  return result: the caught error or the result leaves the with block
RunLeaveTry ==
    /\ runPc \in {"raise", "return"}
    /\ pending' = caught
    /\ runPc' = "exit_with"
    /\ UNCHANGED <<caught, runOutcome, animPc, opState, opOutcome,
                   stop_event, setCount, frame, name, termVars, histVars>>
    /\ UNCHANGED notAnimVars

\* ThreadPoolExecutor.__exit__: shutdown(wait=True) joins the worker threads,
\* so it blocks until both tasks have ended; then the call returns or raises
RunExitWith ==
    /\ runPc = "exit_with"
    /\ animPc = "done"
    /\ opState = "done"
    /\ runOutcome' = pending
    /\ runPc' = "done"
    /\ UNCHANGED <<caught, pending, animPc, opState, opOutcome,
                   stop_event, setCount, frame, name, termVars, histVars>>
    /\ UNCHANGED notAnimVars

RunnerStep ==
    \/ RunSubmitAnimate
    \/ RunSubmitFunction
    \/ RunTry
    \/ RunSetStop
    \/ RunJoinAnimate
    \/ RunLeaveTry
    \/ RunExitWith

NextAnimation ==
    \/ RunnerStep
    \/ AnimateStep
    \/ OpStep

(***************************************************************************)
(* find_valid_pipx_command and its candidate generator                     *)
(***************************************************************************)
NoError == [type |-> None, message |-> None]

\* this_python.endswith("algokit")
EndsWithAlgokit(exe) == exe = "/usr/local/bin/algokit"

\* base_home_path / name, with_suffix(".exe") on Windows (with_suffix replaces
\* the ".11" of "python3.11")
HomeCandidate(home, nm, is_windows) ==
    IF is_windows
    THEN CASE nm = "python" -> "C:/base/python.exe"
           [] nm = "python3" -> "C:/base/python3.exe"
           [] nm = "python3.11" -> "C:/base/python3.exe"
    ELSE CASE nm = "python" -> "/base/bin/python"
           [] nm = "python3" -> "/base/bin/python3"
           [] nm = "python3.11" -> "/base/bin/python3.11"

\* for name in ("python", "python3", f"python3.{sys.version_info.minor}")
HomeNames == <<"python", "python3", "python3.11">>

\* get_base_python_path(): None, or the path of an interpreter
GetBasePythonPath(env) ==
    LET this_python == env.executable
        found == {i \in 1..Len(HomeNames) :
                     HomeCandidate(env.home, HomeNames[i], env.windows) \in env.files}
    IN IF this_python = None \/ this_python = "" \/ EndsWithAlgokit(this_python)
       THEN None
       ELSE IF ~env.venv
       THEN this_python
       ELSE IF env.symlink = "yes"
       THEN env.resolved
       ELSE IF env.home # None /\ found # {}
       THEN HomeCandidate(env.home,
                          HomeNames[CHOOSE i \in found : \A j \in found : i <= j],
                          env.windows)
       ELSE this_python

\* which(python_name)
WhichPython(env, python_name) ==
    IF python_name = "python3" THEN env.which3 ELSE env.which

RECURSIVE ResumeWrongOrder(_, _)
\* the generator with python tried before python3
ResumeWrongOrder(env, pos) ==
    CASE pos = "pipx" ->
           [cand |-> <<"pipx">>, pos |-> "python3", looked |-> <<>>]
      [] pos = "python3" ->
           LET python_path == WhichPython(env, "python")
               rest == ResumeWrongOrder(env, "python")
           IN IF python_path # None
              THEN [cand |-> <<python_path, "-m", "pipx">>, pos |-> "python",
                    looked |-> <<"python">>]
              ELSE [rest EXCEPT !.looked = <<"python">> \o @]
      [] pos = "python" ->
           LET python_path == WhichPython(env, "python3")
               rest == ResumeWrongOrder(env, "base")
           IN IF python_path # None
              THEN [cand |-> <<python_path, "-m", "pipx">>, pos |-> "base",
                    looked |-> <<"python3">>]
              ELSE [rest EXCEPT !.looked = <<"python3">> \o @]
      [] pos = "base" ->
           LET python_base_path == GetBasePythonPath(env)
           IN IF python_base_path # None
              THEN [cand |-> <<python_base_path, "-m", "pipx">>, pos |-> "end",
                    looked |-> <<>>]
              ELSE [cand |-> <<>>, pos |-> "end", looked |-> <<>>]
      [] pos = "end" ->
           [cand |-> <<>>, pos |-> "end", looked |-> <<>>]

RECURSIVE Resume(_, _)
\* get_candidate_pipx_commands() resumed at pos: the candidate it yields next
\* (<<>>: it is exhausted), where it will resume, and the names it looked up
\* with which() on the way.  get_python_paths() is the part from "python3" on.
Resume(env, pos) ==
    CASE pos = "pipx" ->
           [cand |-> <<"pipx">>, pos |-> "python3", looked |-> <<>>]
      [] pos = "python3" ->
           LET python_path == WhichPython(env, "python3")
               rest == Resume(env, "python")
           IN IF python_path # None
              THEN [cand |-> <<python_path, "-m", "pipx">>, pos |-> "python",
                    looked |-> <<"python3">>]
              ELSE [rest EXCEPT !.looked = <<"python3">> \o @]
      [] pos = "python" ->
           LET python_path == WhichPython(env, "python")
               rest == Resume(env, "base")
           IN IF python_path # None
              THEN [cand |-> <<python_path, "-m", "pipx">>, pos |-> "base",
                    looked |-> <<"python">>]
              ELSE [rest EXCEPT !.looked = <<"python">> \o @]
      [] pos = "base" ->
           LET python_base_path == GetBasePythonPath(env)
           IN IF python_base_path # None
              THEN [cand |-> <<python_base_path, "-m", "pipx">>, pos |-> "end",
                    looked |-> <<>>]
              ELSE [cand |-> <<>>, pos |-> "end", looked |-> <<>>]
      [] pos = "end" ->
           [cand |-> <<>>, pos |-> "end", looked |-> <<>>]

\* what proc.run([*pipx_command, "--version"]) can do
ProbeOutcomes == {"exit0", "nonzero", "OSError"}

\* the probe without its except OSError clause
ProbeDispositionNoExcept(outcome) ==
    IF outcome = "OSError" THEN "propagate"
    ELSE IF outcome = "exit0" THEN "return" ELSE "next"

\* try / except OSError: pass / else: if exit_code == 0: return pipx_command
ProbeDisposition(outcome) ==
    IF outcome = "OSError" THEN "next"
    ELSE IF outcome = "exit0" THEN "return" ELSE "next"

Environments ==
    [which3 : {None, "/usr/bin/python3"},
     which : {None, "/usr/bin/python"},
     executable : {None, "", "/usr/local/bin/algokit", "/venv/bin/python"},
     venv : BOOLEAN,
     symlink : {"yes", "no", "OSError"},
     resolved : {"/usr/bin/python3.11"},
     home : {None, "/base/bin"},
     windows : BOOLEAN,
     files : {{}, {"/base/bin/python3"}, {"/base/bin/python", "/base/bin/python3.11"},
              {"C:/base/python.exe"}}]

NoEnvironment ==
    [which3 |-> None, which |-> None, executable |-> None, venv |-> FALSE,
     symlink |-> "no", resolved |-> None, home |-> None, windows |-> FALSE,
     files |-> {}]

PxIdle ==
    /\ pxPc = "idle" /\ pxEnv = NoEnvironment /\ error_message = None
    /\ genPos = "pipx" /\ generated = <<>> /\ whichCalls = <<>> /\ probed = <<>>
    /\ pxCurrent = <<>> /\ pxResult = <<>> /\ pxError = NoError

InitPipx ==
    /\ pxPc = "next" /\ pxEnv \in Environments
    /\ error_message \in {"pipx not found", "install pipx"}
    /\ genPos = "pipx" /\ generated = <<>> /\ whichCalls = <<>> /\ probed = <<>>
    /\ pxCurrent = <<>> /\ pxResult = <<>> /\ pxError = NoError

\* for pipx_command in get_candidate_pipx_commands(): the generator yields
PxNextCandidate ==
    /\ pxPc = "next"
    /\ LET r == Resume(pxEnv, genPos)
       IN /\ r.cand # <<>>
          /\ pxCurrent' = r.cand
          /\ generated' = Append(generated, r.cand)
          /\ whichCalls' = whichCalls \o r.looked
          /\ genPos' = r.pos
    /\ pxPc' = "probe"
    /\ UNCHANGED <<pxEnv, error_message, probed, pxResult, pxError>>
    /\ UNCHANGED notPxVars

\* the generator is exhausted: raise click.ClickException(error_message)
PxExhausted ==
    /\ pxPc = "next"
    /\ LET r == Resume(pxEnv, genPos)
       IN /\ r.cand = <<>>
          /\ whichCalls' = whichCalls \o r.looked
          /\ genPos' = r.pos
    /\ pxError' = [type |-> "ClickException", message |-> error_message]
    /\ pxPc' = "raised"
    /\ UNCHANGED <<pxEnv, error_message, generated, probed, pxCurrent, pxResult>>
    /\ UNCHANGED notPxVars

\* pipx_version_result = proc.run([*pipx_command, "--version"]) and what the
\* try statement makes of it
PxProbe ==
    /\ pxPc = "probe"
    /\ \E outcome \in ProbeOutcomes :
         /\ probed' = Append(probed, [cmd |-> pxCurrent \o <<"--version">>,
                                      outcome |-> outcome])
         /\ LET d == ProbeDisposition(outcome)
            IN CASE d = "return" ->
                      pxResult' = pxCurrent /\ pxPc' = "returned" /\ UNCHANGED pxError
                 [] d = "next" ->
                      pxPc' = "next" /\ UNCHANGED <<pxResult, pxError>>
                 [] d = "propagate" ->
                      /\ pxError' = [type |-> "OSError", message |-> None]
                      /\ pxPc' = "raised"
                      /\ UNCHANGED pxResult
    /\ UNCHANGED <<pxEnv, error_message, genPos, generated, whichCalls, pxCurrent>>
    /\ UNCHANGED notPxVars

NextPipx ==
    \/ PxNextCandidate
    \/ PxExhausted
    \/ PxProbe

(***************************************************************************)
(* resolve_command_path and split_and_resolve_command_strings (POSIX)      *)
(***************************************************************************)
MaxCommands == 2

\* shlex.split(command) of text without quotes or escapes: the runs of
\* characters between blanks
SplitCommandString(command) ==
    SelectSeq(SplitOn(command, " "), LAMBDA piece : piece # <<>>)

\* Path(cmd).name: the last component of the path, "" when it has none; empty
\* components and "." components are dropped when the path is parsed
PathName(cmd) ==
    LET parts == SelectSeq(SplitOn(cmd, "/"),
                           LAMBDA part : part # <<>> /\ part # <<".">>)
    IN IF Len(parts) = 0 THEN <<>> ELSE parts[Len(parts)]

\* shutil.which(cmd) for a name without a directory part: the first directory
\* of the search path that holds an executable file of that name, joined with
\* the name; <<>> stands for None
Which(cmd, path) ==
    LET hits == {i \in 1..Len(path) : cmd \in path[i].files}
    IN IF hits = {} THEN <<>>
       ELSE path[CHOOSE i \in hits : \A j \in hits : i <= j].dir \o <<"/">> \o cmd

NoResolveError == [type |-> None, token |-> <<>>]

\* the resolution with every command looked up, explicit paths included
ResolveCommandPathAlwaysLookup(command, path) ==
    IF Len(command) = 0
    THEN [ok |-> FALSE, value |-> <<>>, looked |-> <<>>,
          error |-> [type |-> "ValueError", token |-> <<>>]]
    ELSE LET cmd == Head(command)
             resolved_cmd == Which(cmd, path)
         IN IF resolved_cmd = <<>>
            THEN [ok |-> FALSE, value |-> <<>>, looked |-> <<cmd>>,
                  error |-> [type |-> "ClickException", token |-> cmd]]
            ELSE [ok |-> TRUE, value |-> <<resolved_cmd>> \o Tail(command),
                  looked |-> <<cmd>>, error |-> NoResolveError]

\* resolve_command_path(command): the value returned or the error raised, and
\* the names looked up.  "cmd, *args = command" raises ValueError on [].
ResolveCommandPath(command, path) ==
    IF Len(command) = 0
    THEN [ok |-> FALSE, value |-> <<>>, looked |-> <<>>,
          error |-> [type |-> "ValueError", token |-> <<>>]]
    ELSE LET cmd == Head(command)
             args == Tail(command)
             resolved_cmd == Which(cmd, path)
         IN IF PathName(cmd) # cmd
            THEN [ok |-> TRUE, value |-> command, looked |-> <<>>,
                  error |-> NoResolveError]
            ELSE IF resolved_cmd = <<>>
            THEN [ok |-> FALSE, value |-> <<>>, looked |-> <<cmd>>,
                  error |-> [type |-> "ClickException", token |-> cmd]]
            ELSE [ok |-> TRUE, value |-> <<resolved_cmd>> \o args,
                  looked |-> <<cmd>>, error |-> NoResolveError]

\* the command names and argument lists the raw commands are written with
CmdTokens ==
    {<<"a">>, <<"b">>, <<".">>, <<".", ".">>, <<"/">>, <<"a", "/">>,
     <<"a", "/", "b">>, <<".", "/", "a">>, <<"/", "a">>}

ArgLists == {<<>>, <<<<"x">>>>, <<<<"a">>, <<"x">>>>}

RawCommands ==
    {<<>>} \cup {JoinWith(<<c>> \o a, " ") : c \in CmdTokens, a \in ArgLists}

SearchPaths ==
    {<<>>,
     <<[dir |-> <<"/", "p">>, files |-> {}],
       [dir |-> <<"/", "q">>, files |-> {<<"a">>}]>>,
     <<[dir |-> <<"/", "p">>, files |-> {<<"a">>}],
       [dir |-> <<"/", "q">>, files |-> {<<"a">>, <<"b">>}]>>}

RsIdle ==
    /\ rsPc = "idle" /\ commands = <<>> /\ searchPath = <<>> /\ rsIdx = 1
    /\ rsOut = <<>> /\ rsError = NoResolveError /\ lookups = <<>>

InitResolve ==
    /\ rsPc = "run"
    /\ commands \in UNION {[1..n -> RawCommands] : n \in 0..MaxCommands}
    /\ searchPath \in SearchPaths
    /\ rsIdx = 1 /\ rsOut = <<>> /\ rsError = NoResolveError /\ lookups = <<>>

\* one element of the list comprehension:
\* resolve_command_path(split_command_string(raw_command))
RsResolveOne ==
    /\ rsPc = "run"
    /\ rsIdx <= Len(commands)
    /\ LET r == ResolveCommandPath(SplitCommandString(commands[rsIdx]), searchPath)
       IN /\ lookups' = lookups \o r.looked
          /\ IF r.ok
             THEN /\ rsOut' = Append(rsOut, r.value)
                  /\ rsIdx' = rsIdx + 1
                  /\ UNCHANGED <<rsPc, rsError>>
             ELSE /\ rsError' = r.error
                  /\ rsPc' = "raised"
                  /\ UNCHANGED <<rsOut, rsIdx>>
    /\ UNCHANGED <<commands, searchPath>>
    /\ UNCHANGED notRsVars

\* the comprehension is exhausted: the list is returned
RsReturn ==
    /\ rsPc = "run"
    /\ rsIdx > Len(commands)
    /\ rsPc' = "done"
    /\ UNCHANGED <<commands, searchPath, rsIdx, rsOut, rsError, lookups>>
    /\ UNCHANGED notRsVars

NextResolve ==
    \/ RsResolveOne
    \/ RsReturn

(***************************************************************************)
(* Specifications: one per function under study, the others idle           *)
(***************************************************************************)
NextVersion == IsMinimumVersionCall

InitVersionOnly == InitVersion /\ AnimIdle /\ PxIdle /\ RsIdle

InitAnimationOnly == VerIdle /\ InitAnimation /\ PxIdle /\ RsIdle

InitPipxOnly == VerIdle /\ AnimIdle /\ InitPipx /\ RsIdle

InitResolveOnly == VerIdle /\ AnimIdle /\ PxIdle /\ InitResolve

SpecVersion == InitVersionOnly /\ [][NextVersion]_vars

SpecAnimation == InitAnimationOnly /\ [][NextAnimation]_vars

\* The pool runs each task on a thread of its own and the caller on the main
\* thread; the scheduler lets every thread that can take a step take one, and
\* the operation is one that ends.
FairSpecAnimation ==
    /\ SpecAnimation
    /\ WF_vars(RunnerStep)
    /\ WF_vars(AnimateStep)
    /\ WF_vars(OpStep)

SpecPipx == InitPipxOnly /\ [][NextPipx]_vars

SpecResolve == InitResolveOnly /\ [][NextResolve]_vars

Init ==
    \/ InitVersionOnly
    \/ InitAnimationOnly
    \/ InitPipxOnly
    \/ InitResolveOnly

Next ==
    \/ NextVersion
    \/ NextAnimation
    \/ NextPipx
    \/ NextResolve

Spec == Init /\ [][Next]_vars

(***************************************************************************)
(* Properties                                                              *)
(***************************************************************************)
RECURSIVE LexGE(_, _)
\* a >= b in the lexicographic order on number tuples of one length
LexGE(a, b) ==
    IF Len(a) = 0 THEN TRUE
    ELSE Head(a) > Head(b) \/ (Head(a) = Head(b) /\ LexGE(Tail(a), Tail(b)))

\* the numbers the decimal segments stand for
SegmentNumber(seg) ==
    CASE seg = <<"0">> -> 0 [] seg = <<"1">> -> 1 [] seg = <<"9">> -> 9
      [] seg = <<"1", "0">> -> 10 [] seg = <<"0", "9">> -> 9

NumberTuple(version) ==
    LET parts == SplitOn(version, ".")
    IN [i \in 1..Len(parts) |-> SegmentNumber(parts[i])]

\* C8: for version texts of equal arity, is_minimum_version returns true
\* exactly when the integer tuple of system_version is at least that of
\* minimum_version in lexicographic order, segments compared as numbers.
C8_MinimumVersionIsTupleOrder ==
    (vPc = "done" /\ Len(NumberTuple(system_version)) = Len(NumberTuple(minimum_version)))
        => (vResult <=> LexGE(NumberTuple(system_version), NumberTuple(minimum_version)))

\* "10.1" against "9.0": at least it as numbers, below it as text
C8_Witness ==
    /\ vPc = "done"
    /\ system_version = <<"1", "0", ".", "1">>
    /\ minimum_version = <<"9", ".", "0">>
    /\ vResult = TRUE

\* C1: run_with_animation is transparent to the operation's outcome: whatever
\* the operation returned or raised, of whatever error kind, the runner
\* returns or raises just that, with animate already ended.
C1_OutcomePropagates ==
    (opState = "done")
        ~> (runPc = "done" /\ runOutcome = opOutcome /\ animPc = "done")

\* C2: in no reachable state has the operation completed while the runner
\* waits on a spinner that was never cancelled: whenever the runner is blocked
\* on animate (joining it, or leaving the with block), the flag is set.
C2_NeverWaitsOnUncancelledSpinner ==
    (opState = "done" /\ runPc \in {"except_join", "else_join", "exit_with"})
        => stop_event

\* C3: in every execution the spinner's writes end with the cursor reset, and
\* no frame is written after it.
C3_LastWriteIsReset ==
    <>[](animPc = "done" /\ lastWrite = "reset")

\* C4: after the spinner's final write every cell of the terminal line is
\* blank: neither a glyph nor a character of the label remains.
C4_LineBlankAfterFinalWrite ==
    animPc = "done" => \A i \in 1..Len(line) : line[i] = BLANK

\* C9: the flag starts unset, is set exactly once in an invocation and stays
\* set, only after the operation has completed; animate never writes it.
C9_FlagSetExactlyOnceAfterOperation ==
    /\ setCount <= 1
    /\ stop_event <=> setCount = 1
    /\ stop_event => opState = "done"
    /\ runPc \in {"exit_with", "done"} => setCount = 1

\* C10: once the flag is set animate writes at most one further frame (one
\* whose check had passed before), sleeps at most once more, and once it has
\* seen the flag it only leaves the loops and writes the reset.
C10_CancellationSeenWithinOneFrame ==
    /\ framesAfterStop <= 1
    /\ sleepsAfterStop <= 1
    /\ readsAfterStop <= 2
    /\ readsAfterStop >= 1 => animPc \in {"while", "reset", "done"}
    /\ (readsAfterStop >= 1 /\ animPc = "while") => readsAfterStop = 1
    /\ animPc = "done" => stop_event /\ lastWrite = "reset"

\* the flag was set during a frame: one more frame, one more sleep, then out
C10_Witness ==
    /\ animPc = "done"
    /\ framesAfterStop = 1
    /\ sleepsAfterStop = 1
    /\ readsAfterStop = 2

\* the priority order of the candidates in an environment
ExpectedCandidates(env) ==
    <<<<"pipx">>>>
    \o (IF env.which3 # None THEN <<<<env.which3, "-m", "pipx">>>> ELSE <<>>)
    \o (IF env.which # None THEN <<<<env.which, "-m", "pipx">>>> ELSE <<>>)
    \o (IF GetBasePythonPath(env) # None
        THEN <<<<GetBasePythonPath(env), "-m", "pipx">>>> ELSE <<>>)

\* C5: the candidates are probed with --version in the priority order; the
\* returned one is the first whose probe exits 0, every one before it was
\* probed and not accepted, and none after it is generated or probed.
C5_FirstAcceptedInPriorityOrder ==
    LET E == ExpectedCandidates(pxEnv)
        n == Len(probed)
    IN /\ n <= Len(E)
       /\ \A i \in 1..n : probed[i].cmd = E[i] \o <<"--version">>
       /\ Len(generated) <= Len(E)
       /\ generated = SubSeq(E, 1, Len(generated))
       /\ Len(generated) = IF pxPc = "probe" THEN n + 1 ELSE n
       /\ pxPc = "returned" =>
            /\ n >= 1
            /\ pxResult = E[n]
            /\ probed[n].outcome = "exit0"
            /\ \A i \in 1..(n - 1) : probed[i].outcome # "exit0"
            /\ pxResult = <<"pipx">> => whichCalls = <<>>
       /\ pxPc # "returned" => \A i \in 1..n : probed[i].outcome # "exit0"

\* pipx and python3 were rejected, python was accepted
C5_Witness ==
    /\ pxPc = "returned"
    /\ Len(probed) = 3
    /\ pxResult = <<"/usr/bin/python", "-m", "pipx">>
    /\ pxEnv.which3 # None
    /\ GetBasePythonPath(pxEnv) # None

\* C6: an OSError of a probe never ends the discovery; it fails exactly when
\* every candidate raised OSError or exited non-zero, and then with a
\* ClickException carrying error_message.
C6_OSErrorSkipsCandidate ==
    LET E == ExpectedCandidates(pxEnv)
        n == Len(probed)
        rejected == \A i \in 1..n : probed[i].outcome \in {"OSError", "nonzero"}
    IN /\ pxPc \in {"returned", "raised"} =>
            (pxPc = "raised" <=> (n = Len(E) /\ rejected))
       /\ pxPc = "raised" =>
            pxError = [type |-> "ClickException", message |-> error_message]
       /\ \A i \in 1..n :
            (probed[i].outcome = "OSError" /\ i < Len(E) /\ pxPc \in {"returned", "raised"})
                => n > i

\* an OSError on the first candidate, a later candidate probed, then failure
C6_Witness ==
    /\ pxPc = "raised"
    /\ Len(probed) >= 3
    /\ probed[1].outcome = "OSError"
    /\ probed[2].outcome = "nonzero"
    /\ probed[3].outcome = "OSError"

HasSeparator(cmd) == \E i \in 1..Len(cmd) : cmd[i] = "/"

RECURSIVE FirstMatch(_, _)
\* the first executable of that name along the search path, <<>> without one
FirstMatch(cmd, path) ==
    IF Len(path) = 0 THEN <<>>
    ELSE IF cmd \in Head(path).files THEN Head(path).dir \o <<"/">> \o cmd
    ELSE FirstMatch(cmd, Tail(path))

\* the words of raw command k
CommandAt(k) == SplitCommandString(commands[k])

\* What resolve_command_path is to do with a non-empty command, given the
\* test that makes it an explicit path: "same", "found" or "fail".
Expected(command, explicit) ==
    IF explicit THEN "same"
    ELSE IF FirstMatch(Head(command), searchPath) # <<>> THEN "found" ELSE "fail"

\* The test for an explicit path: a path separator in cmd, and with dot also
\* cmd = "."
Explicit(cmd, dot) == HasSeparator(cmd) \/ (dot /\ cmd = <<".">>)

RECURSIVE ExpectedLookups(_, _)
\* The names looked up for the first k commands.
ExpectedLookups(k, dot) ==
    IF k = 0 THEN <<>>
    ELSE ExpectedLookups(k - 1, dot)
         \o (IF Len(CommandAt(k)) = 0 \/ Explicit(Head(CommandAt(k)), dot)
             THEN <<>> ELSE <<Head(CommandAt(k))>>)

\* The resolution of the commands follows Expected, command by command in
\* input order, up to the first one that cannot be resolved.
ResolvesAs(dot) ==
    /\ \A k \in 1..Len(rsOut) :
         Len(CommandAt(k)) > 0 =>
            LET command == CommandAt(k)
                e == Expected(command, Explicit(Head(command), dot))
            IN /\ e = "same" => rsOut[k] = command
               /\ e = "found" =>
                    rsOut[k] = <<FirstMatch(Head(command), searchPath)>> \o Tail(command)
               /\ e # "fail"
    /\ rsPc = "raised" =>
         /\ rsIdx = Len(rsOut) + 1
         /\ LET command == CommandAt(rsIdx)
            IN Len(command) > 0 =>
                 /\ Expected(command, Explicit(Head(command), dot)) = "fail"
                 /\ rsError = [type |-> "ClickException", token |-> Head(command)]
    /\ rsPc = "done" => Len(rsOut) = Len(commands)
    /\ rsPc \in {"done", "raised"} =>
         lookups = ExpectedLookups(IF rsPc = "done" THEN Len(commands) ELSE rsIdx,
                                   dot)

\* C7: a cmd holding a path separator is returned unchanged without a lookup;
\* any other cmd is replaced by its first match on the search path, arguments
\* kept, or fails with a ClickException naming cmd; the commands of a list
\* are resolved in input order up to the first that cannot be resolved.
C7_SeparatorMeansUnchanged ==
    ResolvesAs(FALSE)

\* C7 as amended: the test is Path(cmd).name != cmd, true of a cmd with a path
\* separator and of the cmd "." as well.
C7_PathNameDiffersMeansUnchanged ==
    ResolvesAs(TRUE)

\* ". x" is returned as it is, "a a x" gets the first match and keeps its arguments
C7_Witness ==
    /\ rsPc = "done"
    /\ Len(rsOut) = 2
    /\ rsOut[1] = <<<<".">>, <<"x">>>>
    /\ rsOut[2] = <<<<"/", "p", "/", "a">>, <<"a">>, <<"x">>>>
    /\ lookups = <<<<"a">>>>

====
